---------------------------- MODULE Spec2Model ----------------------------
(***************************************************************************)
(* Vocalis end-of-turn detection.                                          *)
(*                                                                         *)
(*   src/backend/services/eot.py   EOTClient: the caller-side gate         *)
(*   src/eot-server/model.py       EOTAudioModel: artifact, load, predict  *)
(*   src/eot-server/main.py        lifespan, /health, /predict             *)
(*                                                                         *)
(* Probabilities are fixed-point numbers: the integer n stands for the     *)
(* float n / Unit, so Unit is 1.0 and 0 is 0.0.                            *)
(***************************************************************************)
EXTENDS Integers, Sequences, FiniteSets, TLC

\* ------------------------------------------------------------------ bounds
\* Resolution of the fixed-point probabilities (Unit stands for 1.0).
Unit == 4
\* Largest client timeout, in clock ticks.
MaxTimeout == 2
\* Largest audio buffer, in bytes.
MaxAudioSize == 1
\* Number of 8192-byte chunks of the remote model artifact.
ArtifactChunks == 2
\* Largest number of /predict requests in flight at once.
MaxPending == 2

\* ---------------------------------------------------------------- constants
\* response.status != 200 (eot.py), response.status != 200 (model.py)
HTTP_OK == 200

\* ------------------------------------------------------------ Python values
\* A Python / JSON value, as far as the gate looks at it.
Num(n) == [t |-> "num", v |-> n]
Bool(b) == [t |-> "bool", v |-> b]
Null == [t |-> "null"]
Str == [t |-> "str"]
\* The key is not in the JSON object.
Absent == [t |-> "absent"]

\* ------------------------------------------------------------ audio buffers
\* An audio buffer: its length in bytes, what decoding makes of it, and (the
\* model being an opaque function of the audio) the continuation probability
\* the ONNX model reports for it.
\*   "empty"    no bytes
\*   "garbage"  bytes that are no audio container
\*   "wav"      decodable audio the model scores with cont
\*   "badwav"   decodable audio on which session.run raises
EmptyAudio == [size |-> 0, kind |-> "empty", cont |-> 0]
AudioBuffers ==
    {EmptyAudio}
    \cup [size : 1..MaxAudioSize, kind : {"garbage", "badwav"}, cont : {0}]
    \cup [size : 1..MaxAudioSize, kind : {"wav"}, cont : 0..Unit]


\* ------------------------------------------------------------------- state
VARIABLES
    \* EOTClient (eot.py): the constructor's fields
    enabled,      \* self.enabled
    threshold,    \* self.threshold
    timeout,      \* self.timeout, in clock ticks
    \* one is_eot call
    gatePc,       \* "Idle", "Sending", "Reading", "Decoded", "Failed", "Bypassed"
    gateAudio,    \* audio_data of the call
    netCalls,     \* session.post requests issued by the call
    elapsed,      \* clock ticks since the request was issued
    response,     \* what the endpoint has answered so far
    cause,        \* what ended the network attempt
    outcome,      \* what is_eot handed to its caller
    \* the disk (model.py)
    fileExists,   \* self.model_path.exists()
    fileChunks,   \* chunks the file at self.model_path holds
    \* the server process (main.py) and its EOTAudioModel (model.py)
    proc,         \* "down", "startup" (lifespan before yield), "serving"
    session,      \* self.session
    loadPc,       \* "none", "new", "connecting", "streaming", "done", "failed"
    loadPath,     \* branch load() took at line 41: "none", "cached", "download"
    loadCalls,    \* calls of load() in this process
    getRequests,  \* session.get requests issued in this process
    dlResult,     \* "none", "ok", "http_error", "transport_error"
    envThreshold, \* EOT_THRESHOLD
    pending,      \* bodies of the /predict requests whose handler awaits request.body()
    httpResp,     \* the last answer of /predict
    predictOut,   \* what the last call of predict did
    healthResp    \* the last answer of /health

gateVars ==
    <<enabled, threshold, timeout, gatePc, gateAudio, netCalls, elapsed,
      response, cause, outcome>>

\* ------------------------------------------------------- EOTClient (eot.py)
\* Status codes the endpoint answers with.
Statuses == {HTTP_OK, 400, 500, 503}

\* Response bodies: text that is no JSON, JSON that is no object, and JSON
\* objects with the two keys absent or holding a value.
ProbValues == {Absent, Null, Str, Bool(TRUE)} \cup {Num(n) : n \in -1..(Unit + 1)}
DecisionValues == {Absent, Null, Str, Bool(TRUE), Bool(FALSE)}
Bodies ==
    {[kind |-> "notjson"], [kind |-> "array"]}
    \cup [kind : {"object"}, eot_prob : ProbValues, is_eot : DecisionValues]

NoResponse == [got |-> FALSE]
NoOutcome == [kind |-> "none"]
Return(p, d) == [kind |-> "return", prob |-> p, dec |-> d]
Raise(e) == [kind |-> "raise", exc |-> e]

\* return 1.0, True
FailOpen == Return(Num(Unit), Bool(TRUE))

\* data.get(key, default) on a JSON object
DictGet(body, key, default) ==
    IF body[key] = Absent THEN default ELSE body[key]

\* The debug log prints eot_prob without a float format: nothing raises.
Formattable_Anything(v) == v.t \in {"num", "bool", "null", "str"}

\* f"{eot_prob:.3f}" formats floats, ints and bools; anything else raises.
Formattable(v) == v.t \in {"num", "bool"}

\* Missing keys default to the fail-open pair instead of 0.0, False.
Decode_FailOpenDefaults(body) ==
    IF body.kind = "notjson" THEN Raise("Exception")
    ELSE IF body.kind = "array" THEN Raise("Exception")
    ELSE LET eot_prob == DictGet(body, "eot_prob", Num(Unit))
             is_eot == DictGet(body, "is_eot", Bool(TRUE))
         IN  IF Formattable(eot_prob) THEN Return(eot_prob, is_eot)
             ELSE Raise("Exception")

\* Lines 79-85 on a received body: the pair returned, or the exception raised
\* by response.json(), data.get or the f-string of the debug log.
Decode(body) ==
    IF body.kind = "notjson" THEN Raise("Exception")
    ELSE IF body.kind = "array" THEN Raise("Exception")
    ELSE LET eot_prob == DictGet(body, "eot_prob", Num(0))
             is_eot == DictGet(body, "is_eot", Bool(FALSE))
         IN  IF Formattable(eot_prob) THEN Return(eot_prob, is_eot)
             ELSE Raise("Exception")

\* The except clauses without the final "except Exception".
HandleException_NoCatchAll(e) ==
    IF e = "TimeoutError" THEN FailOpen
    ELSE IF e = "ClientError" THEN FailOpen
    ELSE Raise(e)

\* The except clauses of is_eot (lines 87-100): asyncio.TimeoutError,
\* aiohttp.ClientError and Exception each return 1.0, True.
HandleException(e) ==
    IF e = "TimeoutError" THEN FailOpen
    ELSE IF e = "ClientError" THEN FailOpen
    ELSE FailOpen

\* A failed attempt is sent once more before the gate gives up.
Fail_Retry(why, result) ==
    IF netCalls < 2
    THEN /\ gatePc' = "Sending"
         /\ netCalls' = netCalls + 1
         /\ UNCHANGED <<cause, outcome>>
    ELSE /\ gatePc' = "Failed"
         /\ cause' = why
         /\ outcome' = result
         /\ UNCHANGED netCalls

\* The call ends in an except clause or in the non-200 branch.
Fail(why, result) ==
    /\ gatePc' = "Failed"
    /\ cause' = why
    /\ outcome' = result
    /\ UNCHANGED netCalls

\* if response.status != 200: return 1.0, True
StatusResult(status) == IF status # HTTP_OK THEN FailOpen ELSE NoOutcome

\* The timer of aiohttp.ClientTimeout(total=self.timeout) has run out.
TimerExpired == elapsed >= timeout

serverVars ==
    <<fileExists, fileChunks, proc, session, loadPc, loadPath, loadCalls,
      getRequests, dlResult, envThreshold, pending, httpResp, predictOut,
      healthResp>>

vars == <<gateVars, serverVars>>

GateInit ==
    /\ enabled \in BOOLEAN
    /\ threshold \in 0..Unit
    /\ timeout \in 1..MaxTimeout
    /\ gatePc = "Idle"
    /\ gateAudio = EmptyAudio
    /\ netCalls = 0
    /\ elapsed = 0
    /\ response = NoResponse
    /\ cause = "none"
    /\ outcome = NoOutcome


\* is_eot without the check of self.enabled.
IsEot_NoEnabledCheck(audio_data) ==
    /\ gatePc = "Idle"
    /\ gateAudio' = audio_data
    /\ gatePc' = "Sending"
    /\ netCalls' = netCalls + 1
    /\ elapsed' = 0
    /\ UNCHANGED <<enabled, threshold, timeout, response, cause, outcome>>
    /\ UNCHANGED serverVars

\* is_eot up to its first await (lines 60-73): the disabled gate returns at
\* once, the enabled gate issues its POST.
IsEot(audio_data) ==
    /\ gatePc = "Idle"
    /\ gateAudio' = audio_data
    /\ IF ~enabled
       THEN /\ gatePc' = "Bypassed"
            /\ outcome' = FailOpen
            /\ UNCHANGED <<netCalls, elapsed>>
       ELSE /\ gatePc' = "Sending"
            /\ netCalls' = netCalls + 1
            /\ elapsed' = 0
            /\ UNCHANGED outcome
    /\ UNCHANGED <<enabled, threshold, timeout, response, cause>>
    /\ UNCHANGED serverVars

\* Time passes while the call awaits the endpoint.
Tick ==
    /\ gatePc \in {"Sending", "Reading"}
    /\ ~TimerExpired
    /\ elapsed' = elapsed + 1
    /\ UNCHANGED <<enabled, threshold, timeout, gatePc, gateAudio, netCalls,
                   response, cause, outcome>>
    /\ UNCHANGED serverVars

\* The response's status line and headers arrive (lines 68-77).
ReceiveStatus(status) ==
    /\ gatePc = "Sending"
    /\ response' = [got |-> TRUE, status |-> status, body |-> [kind |-> "unread"]]
    /\ IF status # HTTP_OK
       THEN Fail("status", StatusResult(status))
       ELSE /\ gatePc' = "Reading"
            /\ UNCHANGED <<netCalls, cause, outcome>>
    /\ UNCHANGED <<enabled, threshold, timeout, gateAudio, elapsed>>
    /\ UNCHANGED serverVars

\* The body of a 200 response arrives: await response.json() and lines 80-85.
ReceiveBody(body) ==
    /\ gatePc = "Reading"
    /\ response' = [response EXCEPT !.body = body]
    /\ LET r == Decode(body)
       IN  IF r.kind = "return"
           THEN /\ gatePc' = "Decoded"
                /\ cause' = "decoded"
                /\ outcome' = r
                /\ UNCHANGED netCalls
           ELSE Fail("body", HandleException(r.exc))
    /\ UNCHANGED <<enabled, threshold, timeout, gateAudio, elapsed>>
    /\ UNCHANGED serverVars

\* The request is posted without timeout=: no timer ever fires.
Timeout_NotArmed ==
    /\ FALSE
    /\ UNCHANGED vars

\* The total timeout fires while the call awaits the status or the body:
\* asyncio.TimeoutError (lines 87-90).
Timeout ==
    /\ gatePc \in {"Sending", "Reading"}
    /\ TimerExpired
    /\ Fail("timeout", HandleException("TimeoutError"))
    /\ UNCHANGED <<enabled, threshold, timeout, gateAudio, elapsed, response>>
    /\ UNCHANGED serverVars

\* The connection is refused, reset or cut: aiohttp.ClientError (lines 92-95).
TransportError ==
    /\ gatePc \in {"Sending", "Reading"}
    /\ Fail("transport", HandleException("ClientError"))
    /\ UNCHANGED <<enabled, threshold, timeout, gateAudio, elapsed, response>>
    /\ UNCHANGED serverVars

\* Anything else raised inside the try block (lines 97-100).
OtherError ==
    /\ gatePc \in {"Sending", "Reading"}
    /\ Fail("other", HandleException("Exception"))
    /\ UNCHANGED <<enabled, threshold, timeout, gateAudio, elapsed, response>>
    /\ UNCHANGED serverVars

\* The caller has its result; the client is ready for the next call.
GateReturn ==
    /\ gatePc \in {"Decoded", "Failed", "Bypassed"}
    /\ gatePc' = "Idle"
    /\ gateAudio' = EmptyAudio
    /\ netCalls' = 0
    /\ elapsed' = 0
    /\ response' = NoResponse
    /\ cause' = "none"
    /\ outcome' = NoOutcome
    /\ UNCHANGED <<enabled, threshold, timeout>>
    /\ UNCHANGED serverVars

GateNext ==
    \/ \E a \in AudioBuffers : IsEot(a)
    \/ Tick
    \/ \E s \in Statuses : ReceiveStatus(s)
    \/ \E b \in Bodies : ReceiveBody(b)
    \/ Timeout
    \/ TransportError
    \/ OtherError
    \/ GateReturn


\* ------------------------------------------------ EOTAudioModel (model.py)
\* self.session = None
NoSession == [loaded |-> FALSE]

\* ort.InferenceSession(str(self.model_path), ...): a session over the whole
\* artifact; onnxruntime raises on a missing or truncated model file.
InferenceSession(exists, chunks) ==
    IF exists /\ chunks = ArtifactChunks
    THEN [ok |-> TRUE, session |-> [loaded |-> TRUE, chunks |-> chunks]]
    ELSE [ok |-> FALSE, session |-> NoSession]

\* librosa.load(io.BytesIO(audio_bytes)) raises on what is no audio.
Decodable(audio) == audio.kind \in {"wav", "badwav"}

NoPredict ==
    [called |-> FALSE, loaded |-> FALSE, error |-> "none", decoded |-> FALSE,
     inferred |-> FALSE, prob |-> 0]

\* predict without the check of self.session: decoding runs first, and
\* self.session.get_inputs() fails on None.
Predict_NoSessionCheck(sess, audio) ==
    IF ~Decodable(audio)
    THEN [called |-> TRUE, loaded |-> sess.loaded, error |-> "DecodeError",
          decoded |-> TRUE, inferred |-> FALSE, prob |-> 0]
    ELSE IF ~sess.loaded
    THEN [called |-> TRUE, loaded |-> FALSE, error |-> "AttributeError",
          decoded |-> TRUE, inferred |-> FALSE, prob |-> 0]
    ELSE IF audio.kind = "badwav"
    THEN [called |-> TRUE, loaded |-> TRUE, error |-> "InferenceError",
          decoded |-> TRUE, inferred |-> TRUE, prob |-> 0]
    ELSE [called |-> TRUE, loaded |-> TRUE, error |-> "none",
          decoded |-> TRUE, inferred |-> TRUE, prob |-> Unit - audio.cont]

\* predict returning the model's continuation probability as it is.
Predict_NoInversion(sess, audio) ==
    IF ~sess.loaded
    THEN [called |-> TRUE, loaded |-> FALSE, error |-> "ModelNotLoaded",
          decoded |-> FALSE, inferred |-> FALSE, prob |-> 0]
    ELSE IF ~Decodable(audio)
    THEN [called |-> TRUE, loaded |-> TRUE, error |-> "DecodeError",
          decoded |-> TRUE, inferred |-> FALSE, prob |-> 0]
    ELSE IF audio.kind = "badwav"
    THEN [called |-> TRUE, loaded |-> TRUE, error |-> "InferenceError",
          decoded |-> TRUE, inferred |-> TRUE, prob |-> 0]
    ELSE [called |-> TRUE, loaded |-> TRUE, error |-> "none",
          decoded |-> TRUE, inferred |-> TRUE, prob |-> audio.cont]

\* predict (lines 95-128): the error raised or the probability returned,
\* with whether _preprocess_audio and session.run were called.
Predict(sess, audio) ==
    IF ~sess.loaded
    THEN [called |-> TRUE, loaded |-> FALSE, error |-> "ModelNotLoaded",
          decoded |-> FALSE, inferred |-> FALSE, prob |-> 0]
    ELSE IF ~Decodable(audio)
    THEN [called |-> TRUE, loaded |-> TRUE, error |-> "DecodeError",
          decoded |-> TRUE, inferred |-> FALSE, prob |-> 0]
    ELSE IF audio.kind = "badwav"
    THEN [called |-> TRUE, loaded |-> TRUE, error |-> "InferenceError",
          decoded |-> TRUE, inferred |-> TRUE, prob |-> 0]
    ELSE [called |-> TRUE, loaded |-> TRUE, error |-> "none",
          decoded |-> TRUE, inferred |-> TRUE, prob |-> Unit - audio.cont]

\* Lines 48-53 of load: the session is built from the file on disk.
BuildSession(exists, chunks) ==
    LET r == InferenceSession(exists, chunks)
    IN  IF r.ok
        THEN session' = r.session /\ loadPc' = "done"
        ELSE session' = NoSession /\ loadPc' = "failed"

\* A failed download is attempted once more.
DownloadFail_Retry(kind) ==
    IF getRequests < 2
    THEN /\ loadPc' = "connecting"
         /\ getRequests' = getRequests + 1
         /\ UNCHANGED <<session, dlResult>>
    ELSE /\ dlResult' = kind
         /\ loadPc' = "failed"
         /\ UNCHANGED <<session, getRequests>>

\* _download_model raises: RuntimeError on a non-200 status (line 65), the
\* transport's exception otherwise; load() and lifespan let it through.
DownloadFail(kind) ==
    /\ dlResult' = kind
    /\ loadPc' = "failed"
    /\ UNCHANGED <<session, getRequests>>

\* -------------------------------------------------------- server (main.py)
NoReply == [status |-> 0]

\* Requests are served while load() is still running.
AcceptingTraffic_DuringStartup == proc \in {"startup", "serving"}

\* uvicorn serves requests once lifespan has reached its yield (line 36).
AcceptingTraffic == proc = "serving"

\* is_eot = eot_prob > threshold
PredictEotReply_StrictGreater(sess, audio_bytes, thr) ==
    IF audio_bytes.size = 0
    THEN [status |-> 400, error |-> "No audio data received"]
    ELSE LET r == Predict(sess, audio_bytes)
         IN  IF r.error # "none"
             THEN [status |-> 500, error |-> r.error]
             ELSE [status |-> HTTP_OK, eot_prob |-> r.prob,
                   is_eot |-> (r.prob > thr), threshold |-> thr,
                   audio_size_bytes |-> audio_bytes.size]

\* predict_eot without the check of an empty body.
PredictEotReply_NoEmptyCheck(sess, audio_bytes, thr) ==
    LET r == Predict(sess, audio_bytes)
    IN  IF r.error # "none"
        THEN [status |-> 500, error |-> r.error]
        ELSE [status |-> HTTP_OK, eot_prob |-> r.prob,
              is_eot |-> (r.prob >= thr), threshold |-> thr,
              audio_size_bytes |-> audio_bytes.size]

\* predict_eot without its except clause: the framework answers an exception
\* with a bare 500.
PredictEotReply_NoExcept(sess, audio_bytes, thr) ==
    IF audio_bytes.size = 0
    THEN [status |-> 400, error |-> "No audio data received"]
    ELSE LET r == Predict(sess, audio_bytes)
         IN  IF r.error # "none"
             THEN [status |-> 500]
             ELSE [status |-> HTTP_OK, eot_prob |-> r.prob,
                   is_eot |-> (r.prob >= thr), threshold |-> thr,
                   audio_size_bytes |-> audio_bytes.size]

\* predict_eot (lines 79-117) on a request body.
PredictEotReply(sess, audio_bytes, thr) ==
    IF audio_bytes.size = 0
    THEN [status |-> 400, error |-> "No audio data received"]
    ELSE LET r == Predict(sess, audio_bytes)
         IN  IF r.error # "none"
             THEN [status |-> 500, error |-> r.error]
             ELSE [status |-> HTTP_OK, eot_prob |-> r.prob,
                   is_eot |-> (r.prob >= thr), threshold |-> thr,
                   audio_size_bytes |-> audio_bytes.size]

ServerInit ==
    /\ fileExists \in BOOLEAN
    /\ fileChunks = (IF fileExists THEN ArtifactChunks ELSE 0)
    /\ proc = "down"
    /\ session = NoSession
    /\ loadPc = "none"
    /\ loadPath = "none"
    /\ loadCalls = 0
    /\ getRequests = 0
    /\ dlResult = "none"
    /\ envThreshold \in 0..Unit
    /\ pending = {}
    /\ httpResp = NoReply
    /\ predictOut = NoPredict
    /\ healthResp = "none"

\* The process starts: lifespan up to line 32, eot_model = EOTAudioModel(".").
StartProcess ==
    /\ proc = "down"
    /\ proc' = "startup"
    /\ session' = NoSession
    /\ loadPc' = "new"
    /\ loadPath' = "none"
    /\ loadCalls' = 0
    /\ getRequests' = 0
    /\ dlResult' = "none"
    /\ pending' = {}
    /\ httpResp' = NoReply
    /\ predictOut' = NoPredict
    /\ healthResp' = "none"
    /\ UNCHANGED <<fileExists, fileChunks, envThreshold>>
    /\ UNCHANGED gateVars

\* await eot_model.load() (main.py line 33; model.py lines 41-53) up to its
\* first await: with the file present the session is built at once, with the
\* file absent _download_model issues its GET.
Load ==
    /\ proc = "startup"
    /\ loadPc = "new"
    /\ loadCalls' = loadCalls + 1
    /\ IF ~fileExists
       THEN /\ loadPath' = "download"
            /\ getRequests' = getRequests + 1
            /\ loadPc' = "connecting"
            /\ UNCHANGED session
       ELSE /\ loadPath' = "cached"
            /\ BuildSession(fileExists, fileChunks)
            /\ UNCHANGED getRequests
    /\ UNCHANGED <<fileExists, fileChunks, proc, dlResult, envThreshold,
                   pending, httpResp, predictOut, healthResp>>
    /\ UNCHANGED gateVars

\* The download's status line arrives (lines 63-68): a non-200 status raises,
\* a 200 opens the file at self.model_path for writing.
DownloadStatus(status) ==
    /\ loadPc = "connecting"
    /\ IF status # HTTP_OK
       THEN /\ DownloadFail("http_error")
            /\ UNCHANGED <<fileExists, fileChunks>>
       ELSE /\ fileExists' = TRUE
            /\ fileChunks' = 0
            /\ loadPc' = "streaming"
            /\ UNCHANGED <<session, getRequests, dlResult>>
    /\ UNCHANGED <<proc, loadPath, loadCalls, envThreshold, pending, httpResp,
                   predictOut, healthResp>>
    /\ UNCHANGED gateVars

\* f.write(chunk) (lines 69-70)
DownloadChunk ==
    /\ loadPc = "streaming"
    /\ fileChunks < ArtifactChunks
    /\ fileChunks' = fileChunks + 1
    /\ UNCHANGED <<fileExists, proc, session, loadPc, loadPath, loadCalls,
                   getRequests, dlResult, envThreshold, pending, httpResp,
                   predictOut, healthResp>>
    /\ UNCHANGED gateVars

\* The transport fails before the status line or between two chunks; the with
\* block closes the file as it is.
DownloadTransportError ==
    /\ \/ loadPc = "connecting"
       \/ loadPc = "streaming" /\ fileChunks < ArtifactChunks
    /\ DownloadFail("transport_error")
    /\ UNCHANGED <<fileExists, fileChunks, proc, loadPath, loadCalls,
                   envThreshold, pending, httpResp, predictOut, healthResp>>
    /\ UNCHANGED gateVars

\* The last chunk is written: _download_model returns and load builds the
\* session (lines 72, 48-53).
DownloadComplete ==
    /\ loadPc = "streaming"
    /\ fileChunks = ArtifactChunks
    /\ dlResult' = "ok"
    /\ BuildSession(fileExists, fileChunks)
    /\ UNCHANGED <<fileExists, fileChunks, proc, loadPath, loadCalls,
                   getRequests, envThreshold, pending, httpResp, predictOut,
                   healthResp>>
    /\ UNCHANGED gateVars

\* load() returned: lifespan yields (lines 34-36) and requests are served.
StartupComplete ==
    /\ proc = "startup"
    /\ loadPc = "done"
    /\ proc' = "serving"
    /\ UNCHANGED <<fileExists, fileChunks, session, loadPc, loadPath,
                   loadCalls, getRequests, dlResult, envThreshold, pending,
                   httpResp, predictOut, healthResp>>
    /\ UNCHANGED gateVars

\* The process is gone, and its model object with it; the disk stays.
ProcessExit ==
    /\ proc' = "down"
    /\ session' = NoSession
    /\ loadPc' = "none"
    /\ pending' = {}
    /\ UNCHANGED <<fileExists, fileChunks, loadPath, loadCalls, getRequests,
                   dlResult, envThreshold, httpResp, predictOut, healthResp>>
    /\ UNCHANGED gateVars

\* load() raised: the exception leaves lifespan and startup is aborted.
StartupFail ==
    /\ proc = "startup"
    /\ loadPc = "failed"
    /\ ProcessExit

\* The server is stopped (lifespan after its yield, lines 38-39).
Shutdown ==
    /\ proc = "serving"
    /\ ProcessExit

\* A /predict request arrives; its handler awaits request.body() (line 81).
ReceiveRequest(audio_bytes) ==
    /\ AcceptingTraffic
    /\ Cardinality(pending) < MaxPending
    /\ audio_bytes \notin pending
    /\ pending' = pending \cup {audio_bytes}
    /\ UNCHANGED <<fileExists, fileChunks, proc, session, loadPc, loadPath,
                   loadCalls, getRequests, dlResult, envThreshold, httpResp,
                   predictOut, healthResp>>
    /\ UNCHANGED gateVars

\* predict_eot that throws the session away when a prediction fails.
PredictEot_DropsSessionOnError(audio_bytes) ==
    /\ AcceptingTraffic
    /\ audio_bytes \in pending
    /\ pending' = pending \ {audio_bytes}
    /\ httpResp' = PredictEotReply(session, audio_bytes, envThreshold)
    /\ predictOut' = IF audio_bytes.size = 0 THEN predictOut
                     ELSE Predict(session, audio_bytes)
    /\ session' = IF httpResp'.status = 500 THEN NoSession ELSE session
    /\ UNCHANGED <<fileExists, fileChunks, proc, loadPc, loadPath,
                   loadCalls, getRequests, dlResult, envThreshold, healthResp>>
    /\ UNCHANGED gateVars

\* predict_eot from the body on (lines 83-117).
PredictEot(audio_bytes) ==
    /\ AcceptingTraffic
    /\ audio_bytes \in pending
    /\ pending' = pending \ {audio_bytes}
    /\ httpResp' = PredictEotReply(session, audio_bytes, envThreshold)
    /\ predictOut' = IF audio_bytes.size = 0 THEN predictOut
                     ELSE Predict(session, audio_bytes)
    /\ UNCHANGED <<fileExists, fileChunks, proc, session, loadPc, loadPath,
                   loadCalls, getRequests, dlResult, envThreshold, healthResp>>
    /\ UNCHANGED gateVars

\* /health answered as soon as the process exists, load() finished or not.
HealthCheck_BeforeStartup ==
    /\ proc # "down"
    /\ healthResp' = "healthy"
    /\ UNCHANGED <<fileExists, fileChunks, proc, session, loadPc, loadPath,
                   loadCalls, getRequests, dlResult, envThreshold, pending,
                   httpResp, predictOut>>
    /\ UNCHANGED gateVars

\* health_check (lines 51-61)
HealthCheck ==
    /\ AcceptingTraffic
    /\ healthResp' = "healthy"
    /\ UNCHANGED <<fileExists, fileChunks, proc, session, loadPc, loadPath,
                   loadCalls, getRequests, dlResult, envThreshold, pending,
                   httpResp, predictOut>>
    /\ UNCHANGED gateVars

\* EOTAudioModel.predict called on the model object by any code that holds
\* it, whatever load() has done so far.
PredictCall(audio_bytes) ==
    /\ loadPc # "none"
    /\ predictOut' = Predict(session, audio_bytes)
    /\ UNCHANGED <<fileExists, fileChunks, proc, session, loadPc, loadPath,
                   loadCalls, getRequests, dlResult, envThreshold, pending,
                   httpResp, healthResp>>
    /\ UNCHANGED gateVars

\* The server process: lifespan and the two routes.
ServerNext ==
    \/ StartProcess
    \/ Load
    \/ \E s \in Statuses : DownloadStatus(s)
    \/ DownloadChunk
    \/ DownloadTransportError
    \/ DownloadComplete
    \/ StartupComplete
    \/ StartupFail
    \/ Shutdown
    \/ \E a \in AudioBuffers : ReceiveRequest(a)
    \/ \E a \in AudioBuffers : PredictEot(a)
    \/ HealthCheck

\* The EOTAudioModel object on its own: its construction, load() and predict
\* called at any point of its life.
ModelNext ==
    \/ StartProcess
    \/ Load
    \/ \E s \in Statuses : DownloadStatus(s)
    \/ DownloadChunk
    \/ DownloadTransportError
    \/ DownloadComplete
    \/ StartupComplete
    \/ StartupFail
    \/ Shutdown
    \/ \E a \in AudioBuffers : PredictCall(a)

\* ------------------------------------------------------------ specifications
\* A client with the constructor's defaults, making no call.
GateRest ==
    /\ GateInit
    /\ enabled = TRUE
    /\ threshold = Unit \div 2
    /\ timeout = MaxTimeout

\* A server that is not running, its artifact not yet fetched.
ServerRest ==
    /\ ServerInit
    /\ fileExists = FALSE
    /\ envThreshold = Unit \div 2

Init == GateInit /\ ServerInit
Next == GateNext \/ ServerNext \/ ModelNext

\* The gate alone, the server alone, the model object alone, and all of them.
\* Gate and server share no variable, so each claim is checked on the
\* component it is about.
GateSpecInit == GateInit /\ ServerRest
ServerSpecInit == ServerInit /\ GateRest
GateSpec == GateSpecInit /\ [][GateNext]_vars
ServerSpec == ServerSpecInit /\ [][ServerNext]_vars
ModelSpec == ServerSpecInit /\ [][ModelNext]_vars
Spec == Init /\ [][Next]_vars

\* The clock runs and the armed timer fires.
GateFairSpec == GateSpec /\ WF_vars(Tick) /\ WF_vars(Timeout)


\* ------------------------------------------------------------------ claims
\* C1: for an enabled gate, a network attempt that ends in a non-200
\* response, a timeout, a transport error or any other exception makes
\* is_eot return exactly (1.0, True); nothing is raised to the caller.
C1_FailuresFailOpen ==
    (enabled /\ cause \in {"status", "timeout", "transport", "other", "body"})
        => (gatePc = "Failed" /\ outcome = Return(Num(Unit), Bool(TRUE)))

\* An endpoint answering 503 has ended the call.
C1_Witness ==
    /\ enabled
    /\ gatePc = "Failed"
    /\ cause = "status"
    /\ response.got
    /\ response.status = 503

\* C2: a gate constructed with enabled=false returns (1.0, True) for every
\* audio buffer and makes no network call.
C2_DisabledBypasses ==
    ~enabled =>
        /\ netCalls = 0
        /\ gatePc \in {"Idle", "Bypassed"}
        /\ gatePc = "Bypassed" => outcome = Return(Num(Unit), Bool(TRUE))

\* A disabled gate has answered a call that carried audio.
C2_Witness ==
    /\ ~enabled
    /\ gatePc = "Bypassed"
    /\ gateAudio.size > 0
    /\ gateAudio.kind = "wav"

\* C4 as stated: on a 200 response with a JSON object, is_eot returns the
\* object's eot_prob and is_eot, a missing eot_prob as 0.0 and a missing
\* is_eot as False.
C4_ReturnsBodyValues ==
    (/\ gatePc \in {"Decoded", "Failed"}
     /\ response.got
     /\ response.status = HTTP_OK
     /\ response.body.kind = "object")
        => outcome =
             Return(IF response.body.eot_prob = Absent THEN Num(0)
                    ELSE response.body.eot_prob,
                    IF response.body.is_eot = Absent THEN Bool(FALSE)
                    ELSE response.body.is_eot)

\* C4, amended: on a 200 response whose body is a JSON object in which
\* eot_prob is absent or a number (or a boolean), is_eot returns the object's
\* eot_prob and is_eot, a missing eot_prob as 0.0 and a missing is_eot as
\* False.
C4_ReturnsNumericBodyValues ==
    (/\ gatePc \in {"Decoded", "Failed"}
     /\ response.got
     /\ response.status = HTTP_OK
     /\ response.body.kind = "object"
     /\ response.body.eot_prob.t \in {"absent", "num", "bool"})
        => /\ gatePc = "Decoded"
           /\ outcome =
                Return(IF response.body.eot_prob = Absent THEN Num(0)
                       ELSE response.body.eot_prob,
                       IF response.body.is_eot = Absent THEN Bool(FALSE)
                       ELSE response.body.is_eot)

\* A 200 response with an empty JSON object has been decoded.
C4_Witness ==
    /\ gatePc = "Decoded"
    /\ response.body.kind = "object"
    /\ response.body.eot_prob = Absent
    /\ response.body.is_eot = Absent
    /\ outcome = Return(Num(0), Bool(FALSE))

\* C5: an is_eot call makes at most one network attempt; a failed attempt
\* ends the call with the fail-open result and no second request.
C5_AtMostOneAttempt ==
    /\ netCalls <= 1
    /\ gatePc \in {"Sending", "Reading", "Decoded", "Failed"} => netCalls = 1
    /\ cause \in {"status", "timeout", "transport", "other", "body"}
           => gatePc = "Failed"

\* A call has failed on the transport after its one request.
C5_Witness ==
    /\ gatePc = "Failed"
    /\ cause = "transport"
    /\ netCalls = 1

\* C6: every call that is Sending reaches Decoded or Failed and returns a
\* pair; when the endpoint has not answered by the timeout the call ends
\* with (1.0, True).
C6_CallEnds ==
    /\ (gatePc = "Sending")
           ~> (gatePc \in {"Decoded", "Failed"} /\ outcome.kind = "return")
    /\ (gatePc \in {"Sending", "Reading"} /\ elapsed >= timeout)
           ~> (gatePc \in {"Decoded", "Failed"} /\ outcome.kind = "return")
    /\ [](cause = "timeout"
              => gatePc = "Failed" /\ outcome = Return(Num(Unit), Bool(TRUE)))

\* The endpoint never answered and the timeout ended the call.
C6_Witness ==
    /\ gatePc = "Failed"
    /\ cause = "timeout"
    /\ ~response.got
    /\ elapsed = timeout


\* C3 as stated: no load() takes the file-present branch, skipping the
\* download, while the file at the artifact path is an incomplete transfer.
C3_NoPartialArtifactAccepted ==
    ~(/\ loadPath = "cached"
      /\ fileExists
      /\ fileChunks < ArtifactChunks)

\* C7: predict on a model whose session is unset fails with the
\* model-not-loaded error, and neither decodes nor runs inference.
C7_PredictNeedsLoad ==
    [][(/\ predictOut' # predictOut
        /\ predictOut'.called
        /\ ~session.loaded)
           => (/\ predictOut'.error = "ModelNotLoaded"
               /\ ~predictOut'.decoded
               /\ ~predictOut'.inferred)]_vars

\* predict was called on decodable audio after load() had failed.
C7_Witness ==
    /\ loadPc = "failed"
    /\ ~session.loaded
    /\ predictOut.called
    /\ predictOut.error = "ModelNotLoaded"

\* C8: load() runs exactly once per process, during startup, and has
\* completed before any /predict request is received or handled; handling a
\* request never loads or downloads again.
C8_LoadOnceBeforeTraffic ==
    /\ [](loadCalls <= 1)
    /\ [][loadCalls' # loadCalls /\ loadCalls' # 0 => proc = "startup"]_vars
    /\ [][(pending' # pending /\ proc' = proc)
             => (/\ session.loaded
                 /\ loadPc = "done"
                 /\ loadCalls = 1
                 /\ UNCHANGED <<session, loadPc, loadCalls, getRequests,
                                fileExists, fileChunks>>)]_vars

\* A request was served with 200 by a process that loaded once.
C8_Witness ==
    /\ proc = "serving"
    /\ httpResp.status = HTTP_OK
    /\ loadCalls = 1

\* C9 as stated: a load() that finds a file at the artifact path makes no
\* network request and ends with the session loaded.
C9_CachedLoadSucceeds ==
    (loadPath = "cached" /\ loadPc # "none")
        => (getRequests = 0 /\ session.loaded /\ loadPc = "done")

\* C10: with the artifact file absent, load() makes exactly one download
\* attempt; the session is set only after the download completed, and a
\* non-200 answer or a transport failure makes load() raise, without a
\* second attempt and with the session unset.
C10_OneDownloadAttempt ==
    /\ getRequests <= 1
    /\ loadPath = "download" => getRequests = 1
    /\ (loadPath = "download" /\ session.loaded)
           => (dlResult = "ok" /\ fileExists /\ fileChunks = ArtifactChunks)
    /\ (loadPath = "download" /\ loadPc = "done") => session.loaded
    /\ (dlResult \in {"http_error", "transport_error"} /\ loadPc # "none")
           => (loadPc = "failed" /\ ~session.loaded)

\* A download failed on the transport after a chunk was written.
C10_Witness ==
    /\ loadPath = "download"
    /\ loadPc = "failed"
    /\ dlResult = "transport_error"
    /\ fileExists
    /\ fileChunks > 0
    /\ getRequests = 1


\* C11: in every 200 answer of /predict, for every threshold in [0, 1],
\* is_eot is (eot_prob >= threshold), the threshold being the one reported
\* in meta.threshold and configured in EOT_THRESHOLD.
C11_DecisionIsThresholded ==
    httpResp.status = HTTP_OK
        => /\ httpResp.threshold = envThreshold
           /\ httpResp.threshold \in 0..Unit
           /\ httpResp.is_eot = (httpResp.eot_prob >= httpResp.threshold)

\* A 200 answer whose probability is exactly the threshold, above 0.
C11_Witness ==
    /\ httpResp.status = HTTP_OK
    /\ httpResp.threshold > 0
    /\ httpResp.eot_prob = httpResp.threshold
    /\ httpResp.is_eot

\* C12: the eot_prob of a 200 answer and the continuation probability the
\* model reports for the request's audio add up to 1.0; predict inverts once
\* and the handler passes predict's value on.
C12_InvertedOnce ==
    [][(/\ proc' = proc
        /\ pending' # pending
        /\ pending' \subseteq pending
        /\ httpResp'.status = HTTP_OK)
           => \A a \in pending \ pending' :
                  /\ a.kind = "wav"
                  /\ httpResp'.eot_prob + a.cont = Unit
                  /\ predictOut'.prob = httpResp'.eot_prob]_vars

\* A 200 answer carrying the smallest probability above 0.0.
C12_Witness ==
    /\ httpResp.status = HTTP_OK
    /\ httpResp.eot_prob = 1
    /\ predictOut.prob = 1
    /\ predictOut.inferred

\* C13: a /predict request with an empty body is answered with 400 and an
\* error field; predict is not called (no decoding, no inference) and the
\* session stays as it is.
C13_EmptyBodyRejected ==
    [][(/\ proc' = proc
        /\ EmptyAudio \in pending
        /\ EmptyAudio \notin pending')
           => (/\ httpResp'.status = 400
               /\ "error" \in DOMAIN httpResp'
               /\ predictOut' = predictOut
               /\ session' = session
               /\ session.loaded)]_vars

\* An empty request was answered with 400 after an earlier prediction.
C13_Witness ==
    /\ httpResp.status = 400
    /\ httpResp.error = "No audio data received"
    /\ predictOut.called
    /\ session.loaded


\* C14: an exception raised while a /predict request is handled (decoding,
\* resampling, inference) is answered with 500 and an error message; the
\* process keeps serving with the same session, and a request handled after
\* a failed one is answered as it would have been without it.
C14_ExceptionsAnsweredWith500 ==
    [][(/\ proc' = proc
        /\ pending' # pending
        /\ pending' \subseteq pending)
           => \A a \in pending \ pending' :
                  /\ a.kind \in {"garbage", "badwav"}
                         => /\ httpResp'.status = 500
                            /\ "error" \in DOMAIN httpResp'
                            /\ httpResp'.error =
                                 (IF a.kind = "garbage" THEN "DecodeError"
                                  ELSE "InferenceError")
                  /\ proc' = "serving"
                  /\ session' = session
                  /\ session.loaded
                  /\ (httpResp.status = 500 /\ a.kind = "wav")
                         => /\ httpResp'.status = HTTP_OK
                            /\ httpResp'.eot_prob = Unit - a.cont]_vars

\* Inference failed on a request, and the process serves on with another
\* request in flight.
C14_Witness ==
    /\ httpResp.status = 500
    /\ httpResp.error = "InferenceError"
    /\ proc = "serving"
    /\ session.loaded
    /\ pending # {}

\* C15: /health answers "healthy" only in a process whose one load() has
\* completed; a process whose download failed never answers it.
C15_HealthyOnlyWhenLoaded ==
    healthResp = "healthy"
        => /\ loadCalls = 1
           /\ dlResult \notin {"http_error", "transport_error"}
           /\ proc # "startup"
           /\ proc = "serving" => (session.loaded /\ loadPc = "done")

\* /health answered in a process that had to download its artifact.
C15_Witness ==
    /\ healthResp = "healthy"
    /\ proc = "serving"
    /\ loadPath = "download"
    /\ dlResult = "ok"

\* C17: once load() has completed, no operation of the running process
\* (requests received, predictions that succeed or fail, health checks, in
\* any interleaving) changes the session or the artifact file, and what
\* predict does for a request is decided by that request's audio alone.
C17_SessionImmutable ==
    /\ [][(loadPc = "done" /\ proc' # "down")
             => UNCHANGED <<session, loadPc, fileExists, fileChunks>>]_vars
    /\ [][(/\ proc' = proc
           /\ pending' # pending
           /\ pending' \subseteq pending)
              => \A a \in pending \ pending' :
                     a.size > 0
                         => /\ predictOut'.error =
                                 (CASE a.kind = "wav" -> "none"
                                    [] a.kind = "garbage" -> "DecodeError"
                                    [] a.kind = "badwav" -> "InferenceError")
                            /\ a.kind = "wav"
                                   => predictOut'.prob = Unit - a.cont]_vars

\* A request was answered with 200 while another one was still in flight.
C17_Witness ==
    /\ proc = "serving"
    /\ session.loaded
    /\ httpResp.status = HTTP_OK
    /\ pending # {}
    /\ healthResp = "healthy"


\* C16 as stated: whenever is_eot returns a numeric probability and a boolean
\* decision, the decision is (probability >= threshold) for the client's own
\* configured threshold.
C16_DecisionFollowsClientThreshold ==
    (/\ outcome.kind = "return"
     /\ outcome.prob.t = "num"
     /\ outcome.dec.t = "bool")
        => outcome.dec.v = (outcome.prob.v >= threshold)

\* C18 as stated: the probability is_eot returns is a number between 0.0 and
\* 1.0 on every path: disabled, fail-open, and decoded 200 response.
C18_ProbabilityInUnitInterval ==
    outcome.kind = "return"
        => /\ outcome.prob.t = "num"
           /\ outcome.prob.v >= 0
           /\ outcome.prob.v <= Unit

\* C19: a 200 response whose body is no JSON, no JSON object, or an object
\* whose eot_prob is present but no number ends in the catch-all with
\* (1.0, True); the defaults (0.0, False) stand in only for keys that are
\* absent from a JSON object.
C19_UnusableBodyFailsOpen ==
    /\ (/\ response.got
        /\ response.status = HTTP_OK
        /\ \/ response.body.kind \in {"notjson", "array"}
           \/ /\ response.body.kind = "object"
              /\ response.body.eot_prob.t \in {"null", "str"})
           => (/\ gatePc = "Failed"
               /\ cause = "body"
               /\ outcome = Return(Num(Unit), Bool(TRUE)))
    /\ gatePc = "Decoded"
           => /\ response.body.kind = "object"
              /\ \/ outcome.prob = response.body.eot_prob
                 \/ response.body.eot_prob = Absent /\ outcome.prob = Num(0)
              /\ \/ outcome.dec = response.body.is_eot
                 \/ response.body.is_eot = Absent /\ outcome.dec = Bool(FALSE)

\* A 200 response with {"eot_prob": null, "is_eot": false} ended the call.
C19_Witness ==
    /\ gatePc = "Failed"
    /\ cause = "body"
    /\ response.body.kind = "object"
    /\ response.body.eot_prob = Null
    /\ response.body.is_eot = Bool(FALSE)

==========================================================================
